---------------------------- MODULE Spec2Model ----------------------------
(***************************************************************************)
(* A model of latlong.c (Dire Wolf): conversion of latitude and longitude  *)
(* between degrees held in a double and the text fields of APRS position   *)
(* reports (ddmm.mmH, the 4-byte base 91 field) and of NMEA sentences.     *)
(*                                                                         *)
(* Numbers.  A double is modelled by the exact value it holds, written     *)
(*     [neg, deg, num, den]  =  (-1)^neg * (deg + num/den),  0 <= num<den. *)
(* The coordinates given to the encoders are multiples of 2^-21 degree     *)
(* (den = FracDen).  Such a value is an exact double, and so is every      *)
(* intermediate the encoders compute from it (dlat - ideg, the product by  *)
(* 60., the product by 380926.): the model's arithmetic is the double      *)
(* arithmetic of the code, and sprintf's and round()'s rounding is the     *)
(* only rounding there is.  The decoders return degrees + minutes/60: the  *)
(* model holds the exact value of that expression for the text read, with  *)
(* den = 60 * 10^k for minutes of k fractional digits (den = MinDen for    *)
(* the 4 digits the NMEA encoders write).  The code evaluates it in        *)
(* doubles and rounds three times (atof, the division by 60.0, the sum),   *)
(* so its result is within 2 ulp (under 10^-13 degree) of the value held   *)
(* here, and not always the double nearest to it.  Negation is exact in    *)
(* both.  NaN and the infinities are not modelled.                         *)
(*                                                                         *)
(* Memory.  What a decoder is given is the memory at pstr: the string, its *)
(* terminator and the bytes mapped after it; nothing is mapped past the    *)
(* image.  A read past the terminator is undefined: it gives the byte that *)
(* lies there, whatever it is, or, past the image, stops the process.      *)
(*                                                                         *)
(* Text.  A string is the sequence of its bytes, 0 .. 255; C index i is    *)
(* index i+1 of the sequence.                                              *)
(***************************************************************************)
EXTENDS Integers, Sequences, FiniteSets, TLC

VARIABLES
    call,       \* the function that ran last ("none" before any call)
    dval,       \* the coordinate the encoders are given (dlat / dlong)
    ambiguity,  \* the ambiguity argument of the last *_to_str call
    sout,       \* the bytes the last encoder wrote to slat / slong / clat / clon
    hout,       \* the bytes the last NMEA encoder wrote to hemi
    scaled,     \* the local y / x of the last *_to_comp_str call, before the division
    printed,    \* the messages the last call sent to dw_printf, in order
    pmem,       \* the memory pstr points at: the string, its terminator, what follows
    phemi,      \* the byte phemi points at (*phemi) in the last decoder call
    ret,        \* the value the last decoder call returned
    lastRead,   \* the highest index of pstr the last decoder call read
    fed,        \* TRUE when the last decoder call was given the preceding encoder's output
    faulted     \* TRUE when the last call read memory that is not mapped: it did
                \* not return, and the process has stopped

vars == <<call, dval, ambiguity, sout, hout, scaled, printed, pmem, phemi, ret,
          lastRead, fed, faulted>>

---------------------------------------------------------------------------
(* Characters *)

NUL == 0
CH_SP == 32
CH_DOT == 46
CH_0 == 48
CH_6 == 54
CH_9 == 57
CH_E == 69
CH_N == 78
CH_S == 83
CH_W == 87

\* isdigit()
IsDigit(c) == c >= CH_0 /\ c <= CH_9

---------------------------------------------------------------------------
(* Numbers *)

\* The grid of the encoders' inputs: multiples of 2^-21 degree.
FracDen == 2^21

\* The grid of the decoders' results on the fields the NMEA encoders write:
\* 1/60 degree per minute, 10^4 per "%07.4f".
MinDen == 60 * 10^4

\* direwolf.h: #define G_UNKNOWN (-999999)
G_UNKNOWN == [neg |-> TRUE, deg |-> 999999, num |-> 0, den |-> FracDen]

\* The double holding the integer k.
DInt(k) == [neg |-> k < 0, deg |-> IF k < 0 THEN -k ELSE k, num |-> 0, den |-> FracDen]

\* x == y on doubles (-0.0 == 0.0), for values on the same grid.
DEq(x, y) ==
    /\ x.deg = y.deg /\ x.num = y.num /\ x.den = y.den
    /\ (x.neg = y.neg \/ (x.deg = 0 /\ x.num = 0))

\* x < k and x > k for an integer k.
DLt(x, k) ==
    IF x.neg THEN x.deg > -k \/ (x.deg = -k /\ x.num > 0)
             ELSE x.deg < k

DGt(x, k) ==
    IF x.neg THEN x.deg < -k
             ELSE x.deg > k \/ (x.deg = k /\ x.num > 0)

\* (- x)
DNeg(x) == [x EXCEPT !.neg = ~x.neg]

\* The halves FracDen is split in, to hold the products below in 32 bits.
LimbLo == 2^11
LimbHi == FracDen \div LimbLo

\* The exact product a * (f / FracDen), for 0 <= a < 2^20 and 0 <= f < FracDen:
\* q its integer part, r the rest in units of 1/FracDen.
MulFrac(a, f) ==
    LET bl == f % LimbLo
        bh == f \div LimbLo
        t  == a * bl
        u  == a * bh + (t \div LimbLo)
    IN  [q |-> u \div LimbHi, r |-> (u % LimbHi) * LimbLo + (t % LimbLo)]

\* printf's rounding of q + r/FracDen to an integer: to nearest, ties to even.
RoundHalfEven(p) ==
    IF 2 * p.r > FracDen \/ (2 * p.r = FracDen /\ p.q % 2 = 1) THEN p.q + 1 ELSE p.q

\* round(): to nearest, ties away from zero (the value is never negative here).
RoundHalfAway(p) ==
    IF 2 * p.r >= FracDen THEN p.q + 1 ELSE p.q

---------------------------------------------------------------------------
(* sprintf *)

RECURSIVE Digits(_)
Digits(n) == IF n < 10 THEN <<CH_0 + n>> ELSE Append(Digits(n \div 10), CH_0 + (n % 10))

RECURSIVE ZeroPad(_, _)
ZeroPad(s, width) == IF Len(s) >= width THEN s ELSE ZeroPad(<<CH_0>> \o s, width)

\* "%0<width>d" of n >= 0
FmtInt(n, width) == ZeroPad(Digits(n), width)

\* "%0<width>.<prec>f" of a value whose magnitude, times 10^prec and rounded,
\* is v; minus is its sign bit, which printf prints also for -0.0.
FmtFixed(minus, v, prec, width) ==
    LET body == Digits(v \div 10^prec) \o <<CH_DOT>> \o FmtInt(v % 10^prec, prec)
    IN  IF minus THEN <<45>> \o ZeroPad(body, width - 1) ELSE ZeroPad(body, width)

---------------------------------------------------------------------------
(* The encoders *)

\* ClampWarn with the assignment of the upper limit lost: the message only.
ClampWarn_NoUpperAssign(d, lo, hi, msgLo, msgHi) ==
    LET below == DLt(d, lo)
        d1    == IF below THEN DInt(lo) ELSE d
        above == DGt(d1, hi)
    IN  [val |-> d1,
         msgs |-> (IF below THEN <<msgLo>> ELSE <<>>) \o (IF above THEN <<msgHi>> ELSE <<>>)]

\* The two range tests every encoder starts with: the value after them, and
\* the messages printed.
ClampWarn(d, lo, hi, msgLo, msgHi) ==
    LET below == DLt(d, lo)
        d1    == IF below THEN DInt(lo) ELSE d
        above == DGt(d1, hi)
    IN  [val |-> IF above THEN DInt(hi) ELSE d1,
         msgs |-> (IF below THEN <<msgLo>> ELSE <<>>) \o (IF above THEN <<msgHi>> ELSE <<>>)]

\* if (d < 0) { d = -d; hemi = minus } else hemi = plus
AbsHemi(d, plus, minus) ==
    IF DLt(d, 0) THEN [val |-> DNeg(d), hemi |-> minus] ELSE [val |-> d, hemi |-> plus]

\* DegMin without the test of smin[0]: the minutes as sprintf wrote them.
DegMin_NoCarry(d, prec, width) ==
    [ideg |-> d.deg,
     smin |-> FmtFixed(d.neg, RoundHalfEven(MulFrac(60 * 10^prec, d.num)), prec, width)]

\* DegMin with the ideg++ lost: the minutes reset, the degrees not advanced.
DegMin_NoIncrement(d, prec, width) ==
    LET smin == FmtFixed(d.neg, RoundHalfEven(MulFrac(60 * 10^prec, d.num)), prec, width)
    IN  [ideg |-> d.deg,
         smin |-> IF smin[1] = CH_6 THEN [smin EXCEPT ![1] = CH_0] ELSE smin]

\* ideg = (int)d; dmin = (d - ideg) * 60.; sprintf (smin, "%0w.pf", dmin);
\* if (smin[0] == '6') { smin[0] = '0'; ideg++; }
\* d is positive or a zero.  dmin * 10^prec is the exact product
\* (60 * 10^prec) * num/FracDen; dmin is -0.0 when d is.
DegMin(d, prec, width) ==
    LET smin == FmtFixed(d.neg, RoundHalfEven(MulFrac(60 * 10^prec, d.num)), prec, width)
    IN  IF smin[1] = CH_6
        THEN [ideg |-> d.deg + 1, smin |-> [smin EXCEPT ![1] = CH_0]]
        ELSE [ideg |-> d.deg, smin |-> smin]

\* s[i] = ' ' (i a C index)
Blank(s, i) == [s EXCEPT ![i + 1] = CH_SP]

\* The nested ambiguity tests of latitude_to_str.
LatAmbiguity(slat, amb) ==
    IF amb >= 1
    THEN LET s1 == Blank(slat, 6) IN
         IF amb >= 2
         THEN LET s2 == Blank(s1, 5) IN
              IF amb >= 3
              THEN LET s3 == Blank(s2, 3) IN
                   IF amb >= 4 THEN Blank(s3, 2) ELSE s3
              ELSE s2
         ELSE s1
    ELSE slat

\* LongAmbiguity with the indexes of latitude_to_str, one too low for slong.
LongAmbiguity_LatIndexes(slong, amb) ==
    IF amb >= 1
    THEN LET s1 == Blank(slong, 6) IN
         IF amb >= 2
         THEN LET s2 == Blank(s1, 5) IN
              IF amb >= 3
              THEN LET s3 == Blank(s2, 3) IN
                   IF amb >= 4 THEN Blank(s3, 2) ELSE s3
              ELSE s2
         ELSE s1
    ELSE slong

\* The nested ambiguity tests of longitude_to_str.
LongAmbiguity(slong, amb) ==
    IF amb >= 1
    THEN LET s1 == Blank(slong, 7) IN
         IF amb >= 2
         THEN LET s2 == Blank(s1, 6) IN
              IF amb >= 3
              THEN LET s3 == Blank(s2, 4) IN
                   IF amb >= 4 THEN Blank(s3, 3) ELSE s3
              ELSE s2
         ELSE s1
    ELSE slong

latitude_to_str(dlat, amb) ==
    LET c  == ClampWarn(dlat, -90, 90,
                        "Latitude is less than -90.  Changing to -90.n",
                        "Latitude is greater than 90.  Changing to 90.n")
        h  == AbsHemi(c.val, CH_N, CH_S)
        dm == DegMin(h.val, 2, 5)
    IN  [slat    |-> LatAmbiguity(FmtInt(dm.ideg, 2) \o dm.smin \o <<h.hemi>>, amb),
         printed |-> c.msgs]

longitude_to_str(dlong, amb) ==
    LET c  == ClampWarn(dlong, -180, 180,
                        "Longitude is less than -180.  Changing to -180.n",
                        "Longitude is greater than 180.  Changing to 180.n")
        h  == AbsHemi(c.val, CH_E, CH_W)
        dm == DegMin(h.val, 2, 5)
    IN  [slong   |-> LongAmbiguity(FmtInt(dm.ideg, 3) \o dm.smin \o <<h.hemi>>, amb),
         printed |-> c.msgs]

\* ScaleRound with the sign of d slipped: scale * (base + d).
ScaleRound_SignSlip(scale, base, d) ==
    LET q == IF ~d.neg THEN base + d.deg
             ELSE IF d.num = 0 THEN base - d.deg ELSE base - d.deg - 1
        r == IF ~d.neg \/ d.num = 0 THEN d.num ELSE FracDen - d.num
    IN  scale * q + RoundHalfAway(MulFrac(scale, r))

\* (int)round(scale * (base - d)), for -base <= d <= base: the difference is
\* q + r/FracDen, exactly, and so is its product by the scale.
ScaleRound(scale, base, d) ==
    LET q == IF d.neg THEN base + d.deg
             ELSE IF d.num = 0 THEN base - d.deg ELSE base - d.deg - 1
        r == IF d.neg \/ d.num = 0 THEN d.num ELSE FracDen - d.num
    IN  scale * q + RoundHalfAway(MulFrac(scale, r))

\* Base91 with the subtractions lost: each quotient taken of the whole y.
Base91_NoSubtract(y) ==
    <<y \div (91*91*91) + 33, y \div (91*91) + 33, y \div 91 + 33, y + 33>>

\* The four base 91 digits of y, each plus 33.
Base91(y) ==
    LET y0 == y \div (91*91*91)
        ya == y - y0 * (91*91*91)
        y1 == ya \div (91*91)
        yb == ya - y1 * (91*91)
        y2 == yb \div 91
        y3 == yb - y2 * 91
    IN  <<y0 + 33, y1 + 33, y2 + 33, y3 + 33>>

latitude_to_comp_str(dlat) ==
    LET c == ClampWarn(dlat, -90, 90,
                       "Latitude is less than -90.  Changing to -90.n",
                       "Latitude is greater than 90.  Changing to 90.n")
        y == ScaleRound(380926, 90, c.val)
    IN  [clat |-> Base91(y), y |-> y, printed |-> c.msgs]

\* 180. + dlong is 180. - (- dlong)
longitude_to_comp_str(dlong) ==
    LET c == ClampWarn(dlong, -180, 180,
                       "Longitude is less than -180.  Changing to -180.n",
                       "Longitude is greater than 180.  Changing to 180.n")
        x == ScaleRound(190463, 180, DNeg(c.val))
    IN  [clon |-> Base91(x), x |-> x, printed |-> c.msgs]

\* latitude_to_nmea with the range tests ahead of the test for G_UNKNOWN.
latitude_to_nmea_RangeFirst(dlat) ==
    LET c  == ClampWarn(dlat, -90, 90,
                        "Latitude is less than -90.  Changing to -90.n",
                        "Latitude is greater than 90.  Changing to 90.n")
        h  == AbsHemi(c.val, CH_N, CH_S)
        dm == DegMin(h.val, 4, 7)
    IN  IF DEq(c.val, G_UNKNOWN)
        THEN [slat |-> <<>>, hemi |-> <<>>, printed |-> c.msgs]
        ELSE [slat |-> FmtInt(dm.ideg, 2) \o dm.smin, hemi |-> <<h.hemi>>,
              printed |-> c.msgs]

latitude_to_nmea(dlat) ==
    IF DEq(dlat, G_UNKNOWN)
    THEN [slat |-> <<>>, hemi |-> <<>>, printed |-> <<>>]
    ELSE LET c  == ClampWarn(dlat, -90, 90,
                             "Latitude is less than -90.  Changing to -90.n",
                             "Latitude is greater than 90.  Changing to 90.n")
             h  == AbsHemi(c.val, CH_N, CH_S)
             dm == DegMin(h.val, 4, 7)
         IN  [slat |-> FmtInt(dm.ideg, 2) \o dm.smin, hemi |-> <<h.hemi>>,
              printed |-> c.msgs]

longitude_to_nmea(dlong) ==
    IF DEq(dlong, G_UNKNOWN)
    THEN [slong |-> <<>>, hemi |-> <<>>, printed |-> <<>>]
    ELSE LET c  == ClampWarn(dlong, -180, 180,
                             "longitude is less than -180.  Changing to -180.n",
                             "longitude is greater than 180.  Changing to 180.n")
             h  == AbsHemi(c.val, CH_E, CH_W)
             dm == DegMin(h.val, 4, 7)
         IN  [slong |-> FmtInt(dm.ideg, 3) \o dm.smin, hemi |-> <<h.hemi>>,
              printed |-> c.msgs]

---------------------------------------------------------------------------
(* The decoders *)

\* pstr[i], a plain char: signed in the build modelled (gcc, x86-64), so a byte
\* above 127 is a negative number in the arithmetic on pstr[1] and pstr[2].
\* The image holds the string, its terminator and the bytes mapped after it:
\* reading those is undefined, and what they hold is not the caller's to say,
\* so the inputs take them over the contents of ShortFields.  At an index
\* past the image there is no byte: the read stops the process (Faulting),
\* and 256, which is no char, stands for it until then.
Byte(mem, i) ==
    IF i >= Len(mem) THEN 256
    ELSE IF mem[i + 1] > 127 THEN mem[i + 1] - 256 ELSE mem[i + 1]

\* isspace(), isxdigit() in the "C" locale; c is the letter l, in either case.
IsSpace(c) == c = CH_SP \/ (c >= 9 /\ c <= 13)
IsXDigit(c) == IsDigit(c) \/ (c >= 65 /\ c <= 70) \/ (c >= 97 /\ c <= 102)
IsLetter(c, l) == c = l \/ c = l - 32

\* A character of the sequence in "nan(...)": a letter, a digit or '_'.
IsNChar(c) == IsDigit(c) \/ (c >= 65 /\ c <= 90) \/ (c >= 97 /\ c <= 122) \/ c = 95

\* The index of the first byte at or after i that is not white space.
RECURSIVE SkipSpace(_, _)
SkipSpace(mem, i) == IF IsSpace(Byte(mem, i)) THEN SkipSpace(mem, i + 1) ELSE i

\* The index of the first byte at or after i that is not a digit.
RECURSIVE SkipDigits(_, _)
SkipDigits(mem, i) == IF IsDigit(Byte(mem, i)) THEN SkipDigits(mem, i + 1) ELSE i

\* The same for hexadecimal digits, and for the characters of "nan(...)".
RECURSIVE SkipXDigits(_, _)
SkipXDigits(mem, i) == IF IsXDigit(Byte(mem, i)) THEN SkipXDigits(mem, i + 1) ELSE i

RECURSIVE SkipNChars(_, _)
SkipNChars(mem, i) == IF IsNChar(Byte(mem, i)) THEN SkipNChars(mem, i + 1) ELSE i

\* The value of the digits at i .. j-1.
RECURSIVE DigitsValue(_, _, _)
DigitsValue(mem, i, j) ==
    IF j <= i THEN 0 ELSE 10 * DigitsValue(mem, i, j - 1) + (Byte(mem, j - 1) - CH_0)

\* strtod() at pstr + start goes through white space, a sign, digits, a '.'
\* and digits, and then finds one of
\*   "zero"     nothing that converts (no digit; a word that is not "inf" or
\*              "nan"): +0.0, the sign is dropped with the rest; or "0x" with
\*              no hexadecimal digit after it: the 0 alone converts, and
\*              keeps its sign;
\*   "decimal"  digits with an optional '.', and an exponent when 'e' is
\*              followed by an optional sign and a digit: dig is the value of
\*              all the digits, nint + nfrac their number, exp the exponent;
\*   "other"    a hexadecimal number, "inf", "nan".
\* last is the index of the last byte read: the one that ends the number, or
\* the one that told that an exponent, "0x" or a word does not go on.
\* The operators below are the steps of it, each given what the ones before
\* have found: minus the sign, i0 the index after the sign, i1 after the
\* digits, i2 after the fraction, e1 after the sign of the exponent.
ScanZero(minus, last) == [kind |-> "zero", neg |-> minus, last |-> last]

ScanOther(minus, last) == [kind |-> "other", neg |-> minus, last |-> last]

\* The index of the last byte read of an exponent that starts at i ('e' or
\* 'p'): the byte after its digits, or the one that is no digit.
ExpLast(mem, i) ==
    SkipDigits(mem, IF Byte(mem, i + 1) = 45 \/ Byte(mem, i + 1) = 43 THEN i + 2 ELSE i + 1)

\* No digit: a word ("inf": n, f follow; "nan": a, n follow, and then '(' and
\* a sequence of characters are looked for) or nothing.
ScanWord(mem, minus, i0, i2) ==
    LET word == IF IsLetter(Byte(mem, i0), 105) THEN <<110, 102>>
                ELSE IF IsLetter(Byte(mem, i0), 110) THEN <<97, 110>>
                ELSE <<>>
    IN  IF word = <<>> THEN ScanZero(FALSE, i2)
        ELSE IF ~IsLetter(Byte(mem, i0 + 1), word[1]) THEN ScanZero(FALSE, i0 + 1)
        ELSE IF ~IsLetter(Byte(mem, i0 + 2), word[2]) THEN ScanZero(FALSE, i0 + 2)
        ELSE IF word[2] = 102 THEN ScanOther(minus, i0 + 2)
        ELSE IF Byte(mem, i0 + 3) = 40 THEN ScanOther(minus, SkipNChars(mem, i0 + 4))
        ELSE ScanOther(minus, i0 + 3)

\* The rest of a hexadecimal number whose digits and '.' end at h: an
\* exponent when 'p' is there.
ScanHexEnd(mem, minus, h) ==
    ScanOther(minus, IF IsLetter(Byte(mem, h), 112) THEN ExpLast(mem, h) ELSE h)

\* "0x" at i0: hexadecimal when a hexadecimal digit follows, or '.' and one.
ScanHex(mem, minus, i0) ==
    IF IsXDigit(Byte(mem, i0 + 2))
    THEN IF Byte(mem, SkipXDigits(mem, i0 + 2)) = CH_DOT
         THEN ScanHexEnd(mem, minus, SkipXDigits(mem, SkipXDigits(mem, i0 + 2) + 1))
         ELSE ScanHexEnd(mem, minus, SkipXDigits(mem, i0 + 2))
    ELSE IF Byte(mem, i0 + 2) # CH_DOT THEN ScanZero(minus, i0 + 2)
    ELSE IF IsXDigit(Byte(mem, i0 + 3))
    THEN ScanHexEnd(mem, minus, SkipXDigits(mem, i0 + 3))
    ELSE ScanZero(minus, i0 + 3)

\* The decimal number found: nexp digits of exponent at e1 (0 when the number
\* has no exponent), the last byte read at index last.  The values are taken
\* when the digits are few enough for the integers of the model.
ScanDecimal(mem, minus, i0, i1, nfrac, eneg, e1, nexp, last) ==
    LET small == (i1 - i0) + nfrac <= 9 /\ nexp <= 2
        ev    == IF small THEN DigitsValue(mem, e1, e1 + nexp) ELSE 0
    IN  [kind  |-> "decimal", neg |-> minus, last |-> last,
         nint  |-> i1 - i0, nfrac |-> nfrac, nexp |-> nexp,
         dig   |-> IF ~small THEN 0
                   ELSE DigitsValue(mem, i0, i1) * 10^nfrac
                          + DigitsValue(mem, i1 + 1, i1 + 1 + nfrac),
         exp   |-> IF eneg THEN -ev ELSE ev]

\* After 'e' at i2: an optional sign, then the digits of the exponent.
ScanExp(mem, minus, i0, i1, i2, nfrac) ==
    LET eneg == Byte(mem, i2 + 1) = 45
        e1   == IF eneg \/ Byte(mem, i2 + 1) = 43 THEN i2 + 2 ELSE i2 + 1
    IN  ScanDecimal(mem, minus, i0, i1, nfrac, eneg, e1,
                    SkipDigits(mem, e1) - e1, SkipDigits(mem, e1))

ScanNumber(mem, minus, i0, i1, i2) ==
    LET nfrac == IF i2 > i1 THEN i2 - (i1 + 1) ELSE 0
    IN  IF (i1 - i0) + nfrac = 0 THEN ScanWord(mem, minus, i0, i2)
        ELSE IF Byte(mem, i0) = CH_0 /\ IsLetter(Byte(mem, i0 + 1), 120)
        THEN ScanHex(mem, minus, i0)
        ELSE IF IsLetter(Byte(mem, i2), 101)
        THEN ScanExp(mem, minus, i0, i1, i2, nfrac)
        ELSE ScanDecimal(mem, minus, i0, i1, nfrac, FALSE, i2, 0, i2)

ScanFraction(mem, minus, i0, i1) ==
    ScanNumber(mem, minus, i0, i1,
               IF Byte(mem, i1) = CH_DOT THEN SkipDigits(mem, i1 + 1) ELSE i1)

ScanSign(mem, s0) ==
    LET i0 == IF Byte(mem, s0) = 45 \/ Byte(mem, s0) = 43 THEN s0 + 1 ELSE s0
    IN  ScanFraction(mem, Byte(mem, s0) = 45, i0, SkipDigits(mem, i0))

AtofScan(mem, start) == ScanSign(mem, SkipSpace(mem, start))

\* The value of what AtofScan found, (-1)^neg * units/scale, scale a power of
\* 10.  The value is held for a decimal number of at most 9 digits that is a
\* multiple of 10^-7 below 10^9; a number that is not (more digits, a larger
\* exponent, hexadecimal, "inf", "nan") has no value in the model.
AtofValue(s) ==
    CASE s.kind = "zero" ->
           [neg |-> s.neg, units |-> 0, scale |-> 1, last |-> s.last]
      [] s.kind = "decimal" /\ s.nint + s.nfrac <= 9 /\ s.nexp <= 2
           /\ s.nfrac - s.exp >= 0 /\ s.nfrac - s.exp <= 7 ->
           [neg |-> s.neg, units |-> s.dig, scale |-> 10^(s.nfrac - s.exp),
            last |-> s.last]
      [] s.kind = "decimal" /\ s.nint + s.nfrac <= 9 /\ s.nexp <= 2
           /\ s.nfrac - s.exp < 0 /\ s.nint + s.exp <= 9 ->
           [neg |-> s.neg, units |-> s.dig * 10^(s.exp - s.nfrac), scale |-> 1,
            last |-> s.last]

\* atof(pstr + start), as the exact value of the text.
Atof(mem, start) == AtofValue(AtofScan(mem, start))

\* ideg + m / 60.0, for an int ideg and m as Atof gives it: the exact value,
\* on the grid of 1/(60 * m.scale) degree.  An int plus a double that sum to
\* zero give +0.0.
DegPlusMin(ideg, m) ==
    LET den == 60 * m.scale
        a   == m.units \div den
        b   == m.units % den
        q   == IF ~m.neg THEN ideg + a ELSE IF b = 0 THEN ideg - a ELSE ideg - a - 1
        r   == IF ~m.neg \/ b = 0 THEN b ELSE den - b
    IN  IF q >= 0 THEN [neg |-> FALSE, deg |-> q, num |-> r, den |-> den]
        ELSE IF r = 0 THEN [neg |-> TRUE, deg |-> -q, num |-> 0, den |-> den]
        ELSE [neg |-> TRUE, deg |-> -q - 1, num |-> den - r, den |-> den]

Max(a, b) == IF a >= b THEN a ELSE b

\* RangeHemi with the range test made fatal: G_UNKNOWN for a value out of range.
RangeHemi_RangeRejects(x, limit, plus, minus, hemi, msgRange, msgHemi) ==
    [ret     |-> IF DLt(x, 0) \/ DGt(x, limit) THEN G_UNKNOWN
                 ELSE IF hemi = minus THEN DNeg(x) ELSE x,
     printed |-> (IF DLt(x, 0) \/ DGt(x, limit) THEN <<msgRange>> ELSE <<>>)
                 \o (IF hemi # plus /\ hemi # minus /\ hemi # NUL
                     THEN <<msgHemi>> ELSE <<>>)]

\* The tests and the sign flip that follow the computation of lat / lon.
RangeHemi(x, limit, plus, minus, hemi, msgRange, msgHemi) ==
    [ret     |-> IF hemi = minus THEN DNeg(x) ELSE x,
     printed |-> (IF DLt(x, 0) \/ DGt(x, limit) THEN <<msgRange>> ELSE <<>>)
                 \o (IF hemi # plus /\ hemi # minus /\ hemi # NUL
                     THEN <<msgHemi>> ELSE <<>>)]

\* What a call leaves that has read up to index r.last of an image: r when
\* the index is in the image; when it is not, the read stopped the process
\* (SIGSEGV), before any message: nothing is returned.
Faulting(mem, r) ==
    IF r.last >= Len(mem)
    THEN [ret |-> DInt(0), printed |-> <<>>, last |-> r.last, fault |-> TRUE]
    ELSE [ret |-> r.ret, printed |-> r.printed, last |-> r.last, fault |-> FALSE]

\* isdigit() is given (unsigned char)pstr[0]; no negative char is a digit.
latitude_from_nmea(mem, hemi) ==
    Faulting(mem,
        IF ~IsDigit(Byte(mem, 0))
        THEN [ret |-> G_UNKNOWN, printed |-> <<>>, last |-> 0]
        ELSE IF Byte(mem, 4) # CH_DOT
        THEN [ret |-> G_UNKNOWN, printed |-> <<>>, last |-> 4]
        ELSE LET m   == Atof(mem, 2)
                 lat == DegPlusMin((Byte(mem, 0) - CH_0) * 10 + (Byte(mem, 1) - CH_0), m)
                 r   == RangeHemi(lat, 90, CH_N, CH_S, hemi,
                                  "Error: Latitude not in range of 0 to 90.\n",
                                  "Error: Latitude hemisphere should be N or S.\n")
             IN  [ret |-> r.ret, printed |-> r.printed, last |-> Max(4, m.last)])

longitude_from_nmea(mem, hemi) ==
    Faulting(mem,
        IF ~IsDigit(Byte(mem, 0))
        THEN [ret |-> G_UNKNOWN, printed |-> <<>>, last |-> 0]
        ELSE IF Byte(mem, 5) # CH_DOT
        THEN [ret |-> G_UNKNOWN, printed |-> <<>>, last |-> 5]
        ELSE LET m   == Atof(mem, 3)
                 lon == DegPlusMin((Byte(mem, 0) - CH_0) * 100 + (Byte(mem, 1) - CH_0) * 10
                                     + (Byte(mem, 2) - CH_0), m)
                 r   == RangeHemi(lon, 180, CH_E, CH_W, hemi,
                                  "Error: Longitude not in range of 0 to 180.\n",
                                  "Error: Longitude hemisphere should be E or W.\n")
             IN  [ret |-> r.ret, printed |-> r.printed, last |-> Max(5, m.last)])

\* strlen(): the index of the terminator.
RECURSIVE StrLenFrom(_, _)
StrLenFrom(mem, i) == IF Byte(mem, i) = NUL THEN i ELSE StrLenFrom(mem, i + 1)

StrLen(mem) == StrLenFrom(mem, 0)

---------------------------------------------------------------------------
(* The inputs *)

\* The ambiguity levels given to *_to_str: 0 .. MaxAmbiguity.
MaxAmbiguity == 4

\* How far around each fraction of interest the coordinates are taken, in
\* units of 1/FracDen degree.
NearSteps == 2

\* The most bytes mapped after the terminator of a short field.
TailLen == 4

\* How many of TailBytes those bytes are taken from.
TailKinds == 5

DigitChars == <<"0", "1", "2", "3", "4", "5", "6", "7", "8", "9">>

\* The code of a character; "0xC3" names the byte 195, which is no character
\* of ASCII.
Ord(c) ==
    IF \E i \in 1..10 : DigitChars[i] = c
    THEN 47 + (CHOOSE i \in 1..10 : DigitChars[i] = c)
    ELSE CASE c = " " -> 32
           [] c = "!" -> 33
           [] c = "+" -> 43
           [] c = "," -> 44
           [] c = "-" -> 45
           [] c = "." -> 46
           [] c = "E" -> 69
           [] c = "N" -> 78
           [] c = "S" -> 83
           [] c = "W" -> 87
           [] c = "e" -> 101
           [] c = "x" -> 120
           [] c = "{" -> 123
           [] c = "0xC3" -> 195

\* The bytes of a string given character by character.
Str(cs) == [i \in 1..Len(cs) |-> Ord(cs[i])]

\* Whole degrees: inside, at and beyond the limits of both axes.
DegSet == {0, 9, 49, 72, 89, 90, 91, 179, 180, 181}

\* Fractions of a degree, in units of 1/FracDen:
\*   0 and FracDen        whole degrees, and the minutes that print as 60.0000
\*   FracDen - 174        the least minutes that print as 60.00 (59.995 and up)
\*   FracDen - 495, -991  scaled integers whose last base 91 digit is 90
\*   2^16, 3 * 2^16       1.875 and 5.625 minutes: ties of "%05.2f"
\*   122334, 61167       03.50 and 01.75 minutes (49.0583 N, 72.0292 W)
\*   2^20                30 minutes
FracSet ==
    ( {2^16, 3 * 2^16, 122334, 61167, 2^20}
      \cup UNION { (t - NearSteps)..(t + NearSteps) :
                   t \in {0, FracDen - 991, FracDen - 495, FracDen - 174, FracDen} } )
    \cap (0..(FracDen - 1))

Coords ==
    {G_UNKNOWN} \cup
    [neg : BOOLEAN, deg : DegSet, num : FracSet, den : {FracDen}]

\* Fields whose bytes up to index 5 lie within the string or are its terminator.
LongFields ==
    { Str(cs) \o <<NUL>> : cs \in {
        <<>>,
        <<"4","9","0","3",".","5","0","0","0">>,
        <<"4","9","0","3",".","5">>,
        <<"4","9","5","9",".","9","9","9","9">>,
        <<"9","0","0","0",".","0","0","0","0">>,
        <<"9","0","0","0",".","0","0","0","1">>,
        <<"9","1","3","0",".","0","0">>,
        <<"0","0","0","0",".","0","0","0","0">>,
        <<"0","7","2","0","1",".","7","5","0","0">>,
        <<"1","8","0","0","0",".","0","0","0","0">>,
        <<"1","8","0","0","0",".","0","1">>,
        <<"4","9","0","3","5","0","0","0">>,
        <<"4","9",".","5","0","0","0">>,
        <<",","9","0","3",".","5","0">>,
        <<".","9","0","3",".","5","0">>,
        <<"-","9","0","3",".","5","0">>,
        <<" ","0","7","2","0",".","5","0">>,
        <<"4",",","0","3",".","5","0">>,
        <<"4","9","-","3",".","5","0">>,
        <<"0","-","0","3",".","5","0">>,
        <<"0","7","2","-","1",".","7","5">>,
        <<"0","0","-","0","1",".","7","5">>,
        <<"4","9","0","3",".">>,
        <<"4","9",",",",",".","5">>,
        <<"1","2","3","4","5">>,
        <<"0","4","3","8",".","6","6","5","7">>,
        <<"9","0","0","0",".","0","0","0","0","1">>,
        <<"1","8","0","0","0",".","0","0","0","0","1">>,
        <<"4","9"," ","3",".","5","0">>,
        <<"0","7","2"," ","1",".","7","5">>,
        <<"4","9","+","3",".","5","0">>,
        <<"4","9","0","3",".","5","e","1">>,
        <<"0","7","2","0","1",".","7","5","E","-","2">>,
        <<"4","9","0","3",".","5","e","+">>,
        <<"4","9","0","x",".",",","5">>,
        <<"4","0xC3","0","3",".","5","0">>,
        <<"0","7","0xC3","0","1",".","7","5">> } }

\* What the bytes after a terminator are taken from, the first TailKinds of
\* them: a byte that ends every number, the '.' the decoders look for, a
\* digit, and then what else a number is made of.
TailBytes == <<NUL, CH_DOT, Ord("5"), Ord("-"), Ord("e"), Ord(" "), Ord("+"), Ord("9")>>

\* Fields that end before index 4 or 5, each with 0 to TailLen bytes mapped
\* after its terminator, of every content.
ShortFields ==
    { Str(cs) \o <<NUL>> \o tail :
        cs \in { <<"1">>, <<"1","2">>, <<"1","2","3">>, <<"1","2","3","4">> },
        tail \in UNION { [1..n -> {TailBytes[k] : k \in 1..TailKinds}] : n \in 0..TailLen } }

\* The byte phemi points at.
HemiSet == {CH_N, CH_S, CH_E, CH_W, NUL, Ord(",")}

---------------------------------------------------------------------------
(* The calls *)

NoValue == DInt(0)

\* Before any call.
Fresh ==
    /\ call = "none"
    /\ ambiguity = 0
    /\ sout = <<>>
    /\ hout = <<>>
    /\ scaled = 0
    /\ printed = <<>>
    /\ phemi = NUL
    /\ ret = NoValue
    /\ lastRead = -1
    /\ fed = FALSE
    /\ faulted = FALSE

Init ==
    /\ \/ dval \in Coords /\ pmem = <<NUL>>
       \/ dval = DInt(0) /\ pmem \in LongFields
    /\ Fresh

\* What a call of an encoder leaves.
Encoded(name, amb, s, h, y, msgs) ==
    /\ ~faulted
    /\ faulted' = FALSE
    /\ call' = name
    /\ ambiguity' = amb
    /\ sout' = s
    /\ hout' = h
    /\ scaled' = y
    /\ printed' = msgs
    /\ phemi' = NUL
    /\ ret' = NoValue
    /\ lastRead' = -1
    /\ fed' = FALSE
    /\ UNCHANGED <<dval, pmem>>

\* What a call of a decoder leaves.
Decoded(name, r) ==
    /\ ~faulted
    /\ faulted' = r.fault
    /\ call' = name
    /\ ret' = r.ret
    /\ printed' = r.printed
    /\ lastRead' = r.last
    /\ ambiguity' = 0
    /\ scaled' = 0
    /\ UNCHANGED dval

LatitudeToStr ==
    \E amb \in 0..MaxAmbiguity :
        LET r == latitude_to_str(dval, amb)
        IN  Encoded("latitude_to_str", amb, r.slat, <<>>, 0, r.printed)

LongitudeToStr ==
    \E amb \in 0..MaxAmbiguity :
        LET r == longitude_to_str(dval, amb)
        IN  Encoded("longitude_to_str", amb, r.slong, <<>>, 0, r.printed)

LatitudeToCompStr ==
    LET r == latitude_to_comp_str(dval)
    IN  Encoded("latitude_to_comp_str", 0, r.clat, <<>>, r.y, r.printed)

LongitudeToCompStr ==
    LET r == longitude_to_comp_str(dval)
    IN  Encoded("longitude_to_comp_str", 0, r.clon, <<>>, r.x, r.printed)

LatitudeToNmea ==
    LET r == latitude_to_nmea(dval)
    IN  Encoded("latitude_to_nmea", 0, r.slat, r.hemi, 0, r.printed)

LongitudeToNmea ==
    LET r == longitude_to_nmea(dval)
    IN  Encoded("longitude_to_nmea", 0, r.slong, r.hemi, 0, r.printed)

\* A decoder called on a field and a hemisphere byte of the caller's.
LatitudeFromNmea ==
    \E h \in HemiSet :
        /\ Decoded("latitude_from_nmea", latitude_from_nmea(pmem, h))
        /\ phemi' = h
        /\ fed' = FALSE
        /\ sout' = <<>>
        /\ hout' = <<>>
        /\ UNCHANGED pmem

LongitudeFromNmea ==
    \E h \in HemiSet :
        /\ Decoded("longitude_from_nmea", longitude_from_nmea(pmem, h))
        /\ phemi' = h
        /\ fed' = FALSE
        /\ sout' = <<>>
        /\ hout' = <<>>
        /\ UNCHANGED pmem

\* A decoder called on the two strings the NMEA encoder has just written.
LatitudeRoundTrip ==
    /\ call = "latitude_to_nmea"
    /\ pmem' = sout \o <<NUL>>
    /\ phemi' = Byte(hout \o <<NUL>>, 0)
    /\ Decoded("latitude_from_nmea",
               latitude_from_nmea(sout \o <<NUL>>, Byte(hout \o <<NUL>>, 0)))
    /\ fed' = TRUE
    /\ UNCHANGED <<sout, hout>>

LongitudeRoundTrip ==
    /\ call = "longitude_to_nmea"
    /\ pmem' = sout \o <<NUL>>
    /\ phemi' = Byte(hout \o <<NUL>>, 0)
    /\ Decoded("longitude_from_nmea",
               longitude_from_nmea(sout \o <<NUL>>, Byte(hout \o <<NUL>>, 0)))
    /\ fed' = TRUE
    /\ UNCHANGED <<sout, hout>>

Next ==
    \/ LatitudeToStr
    \/ LongitudeToStr
    \/ LatitudeToCompStr
    \/ LongitudeToCompStr
    \/ LatitudeToNmea
    \/ LongitudeToNmea
    \/ LatitudeFromNmea
    \/ LongitudeFromNmea
    \/ LatitudeRoundTrip
    \/ LongitudeRoundTrip

Spec == Init /\ [][Next]_vars

\* The decoders as functions of the memory they are given and of *phemi,
\* over fields of every shape, those that end before the index of the '.'
\* included.
DecodeInit ==
    /\ dval = DInt(0)
    /\ pmem \in LongFields \cup ShortFields
    /\ Fresh

DecodeNext ==
    \/ LatitudeFromNmea
    \/ LongitudeFromNmea

DecodeSpec == DecodeInit /\ [][DecodeNext]_vars

---------------------------------------------------------------------------
(* Properties *)

CompCalls == {"latitude_to_comp_str", "longitude_to_comp_str"}
StrCalls  == {"latitude_to_str", "longitude_to_str"}
NmeaCalls == {"latitude_to_nmea", "longitude_to_nmea"}
FromCalls == {"latitude_from_nmea", "longitude_from_nmea"}
LatCalls  == {"latitude_to_str", "latitude_to_comp_str", "latitude_to_nmea",
              "latitude_from_nmea"}

\* The limit of the axis of the last call, and the width of its degrees.
Limit    == IF call \in LatCalls THEN 90 ELSE 180
DegWidth == IF call \in LatCalls THEN 2 ELSE 3

Below == DLt(dval, -Limit)
Above == DGt(dval, Limit)
IsUnknown == dval.neg /\ dval.deg = 999999 /\ dval.num = 0

\* C1 (as claimed): every byte written by latitude_to_comp_str and
\* longitude_to_comp_str lies in 33..122.
C1_BytesUpTo122 ==
    call \in CompCalls => \A i \in 1..Len(sout) : sout[i] >= 33 /\ sout[i] <= 122

\* C1 (amended): for every input coordinate, in the domain or not, the two
\* compressed encoders write four bytes, each in 33..123: a base 91 digit is
\* 0..90, and 90 + 33 is 123.
C1_BytesUpTo123 ==
    call \in CompCalls =>
        /\ Len(sout) = 4
        /\ \A i \in 1..4 : sout[i] >= 33 /\ sout[i] <= 123

\* An input beyond the domain whose field starts with the digit 90.
C1_Witness ==
    /\ call = "longitude_to_comp_str"
    /\ Above
    /\ sout = Str(<<"{", "{", "!", "!">>)

\* The C indexes of the blanks of the last field written.
BlankedAt == {i \in 0..(Len(sout) - 1) : sout[i + 1] = CH_SP}

\* The digits of the minutes, as C indexes into the last ddmm.mmH field.
TensOfMinutes  == DegWidth
UnitsOfMinutes == DegWidth + 1
Tenths         == DegWidth + 3
Hundredths     == DegWidth + 4

\* C2 (as claimed): level 1 blanks the hundredths of minutes, level 2 also the
\* tenths, level 3 also the tens of minutes, level 4 also the units of
\* minutes, the same for latitude and longitude.
C2_Level3BlanksTens ==
    call \in StrCalls =>
        BlankedAt = CASE ambiguity = 0 -> {}
                      [] ambiguity = 1 -> {Hundredths}
                      [] ambiguity = 2 -> {Hundredths, Tenths}
                      [] ambiguity = 3 -> {Hundredths, Tenths, TensOfMinutes}
                      [] ambiguity >= 4 ->
                            {Hundredths, Tenths, TensOfMinutes, UnitsOfMinutes}

\* C2 (amended): level 1 blanks the hundredths of minutes, level 2 also the
\* tenths, level 3 also the units of minutes, level 4 also the tens of
\* minutes; nothing else is blanked, and the positions are the same digits in
\* the latitude and in the longitude field.
C2_Level3BlanksUnits ==
    call \in StrCalls =>
        BlankedAt = CASE ambiguity = 0 -> {}
                      [] ambiguity = 1 -> {Hundredths}
                      [] ambiguity = 2 -> {Hundredths, Tenths}
                      [] ambiguity = 3 -> {Hundredths, Tenths, UnitsOfMinutes}
                      [] ambiguity >= 4 ->
                            {Hundredths, Tenths, UnitsOfMinutes, TensOfMinutes}

\* A longitude at level 3: 072 0_.__ W.
C2_Witness ==
    /\ call = "longitude_to_str"
    /\ ambiguity = 3
    /\ sout = Str(<<"0", "7", "2", "0", " ", ".", " ", " ", "W">>)

\* The last call wrote a degrees and minutes field with all its digits.
TextField ==
    \/ call \in StrCalls /\ ambiguity = 0
    \/ call \in NmeaCalls /\ ~IsUnknown

\* The fractional digits of the minutes of the last field, and its minutes.
Prec == IF call \in NmeaCalls THEN 4 ELSE 2
MinutesField == SubSeq(sout, DegWidth + 1, DegWidth + 3 + Prec)

\* The whole degrees and the fraction of the magnitude the encoder works on.
TruncDeg == IF Below \/ Above THEN Limit ELSE dval.deg
FracNum  == IF Below \/ Above THEN 0 ELSE dval.num

\* The minutes are 60 - 10^-Prec / 2 or more: they print as 60.
RoundsTo60 == FracDen - FracNum <= FracDen \div (120 * 10^Prec)

\* The minutes of the last field, read back: below 60.
MinutesBelow60 ==
    LET m == Atof(MinutesField \o <<NUL>>, 0)
    IN  m.units < 60 * m.scale

\* C3: no text encoder emits minutes of 60.00 / 60.0000.  When the minutes
\* round up to 60 at the precision of the field, the minutes emitted are
\* 00.00 / 00.0000 and the degrees the truncated degrees plus one; otherwise
\* the degrees are the truncated degrees and the minutes are below 60.
C3_NoSixtyMinutes ==
    TextField =>
        /\ MinutesField # FmtFixed(FALSE, 60 * 10^Prec, Prec, Prec + 3)
        /\ IF RoundsTo60
           THEN /\ MinutesField = FmtFixed(FALSE, 0, Prec, Prec + 3)
                /\ DigitsValue(sout, 0, DegWidth) = TruncDeg + 1
           ELSE /\ DigitsValue(sout, 0, DegWidth) = TruncDeg
                /\ MinutesBelow60

\* 49 degrees 59.995 minutes and more, as a latitude: 5000.00N.
C3_Witness ==
    /\ call = "latitude_to_str"
    /\ ambiguity = 0
    /\ dval.deg = 49 /\ ~dval.neg /\ dval.num = FracDen - 174
    /\ sout = Str(<<"5", "0", "0", "0", ".", "0", "0", "N">>)

\* |a - b| is at most half of 1/MinDen degree, for a on the grid of the inputs
\* and b on the grid of MinDen: the magnitudes are (ia + p.r/FracDen) / MinDen
\* and ib / MinDen, and the signs differ only at zero.
WithinHalf(a, b) ==
    LET p  == MulFrac(MinDen, a.num)
        ia == a.deg * MinDen + p.q
        ib == b.deg * MinDen + b.num
    IN  /\ a.neg = b.neg \/ (ia = 0 /\ p.r = 0 /\ ib = 0)
        /\ \/ ia = ib /\ 2 * p.r <= FracDen
           \/ ia + 1 = ib /\ 2 * p.r >= FracDen

\* C4: a latitude in [-90, 90] or a longitude in [-180, 180], other than the
\* sentinel, encoded by *_to_nmea and decoded by *_from_nmea from the two
\* strings written, comes back within 1/600000 degree (0.0001 minute).  The
\* exact value of the field decoded is within half of that of the input (the
\* rounding of "%07.4f"); the double the code returns is within 10^-13 degree
\* of the exact value, which leaves it within the bound claimed.
C4_RoundTrip ==
    (fed /\ call \in FromCalls /\ ~Below /\ ~Above) =>
        /\ ret.den = MinDen
        /\ WithinHalf(dval, ret)

\* A round trip through the carry: 89 degrees 59.99997 minutes comes back as 90.
C4_Witness ==
    /\ fed
    /\ call = "latitude_from_nmea"
    /\ dval.deg = 89 /\ dval.num = FracDen - 1 /\ dval.neg
    /\ ret.deg = 90 /\ ret.num = 0 /\ ret.neg

\* The index the decoder of the last call expects the decimal point at.
DotIndex == IF call = "latitude_from_nmea" THEN 4 ELSE 5

\* The field starts with a digit and has '.' at DotIndex.
StructurallyValid ==
    /\ IsDigit(Byte(pmem, 0))
    /\ StrLen(pmem) > DotIndex
    /\ Byte(pmem, DotIndex) = CH_DOT

\* C5 (as claimed): when the first character of the field is not a digit, or
\* the character at index 4 (latitude) / 5 (longitude) is not '.', the decoder
\* returns G_UNKNOWN and has printed nothing, whatever the hemisphere byte.
C5_StructuralReject ==
    (call \in FromCalls /\ ~StructurallyValid) =>
        /\ ~faulted
        /\ ret = G_UNKNOWN
        /\ printed = <<>>

\* The letter of the last decoder's axis that flips the sign, and the other.
MinusHemi == IF call = "latitude_from_nmea" THEN CH_S ELSE CH_W
PlusHemi  == IF call = "latitude_from_nmea" THEN CH_N ELSE CH_E

\* The magnitude the last decoder computed, recovered from what it returned.
Magnitude == IF phemi = MinusHemi THEN DNeg(ret) ELSE ret

\* The field is digits with '.' at DotIndex and 4 digits after it.
Canonical ==
    /\ StrLen(pmem) = DotIndex + 5
    /\ \A i \in 0..(DotIndex + 4) : i # DotIndex => IsDigit(Byte(pmem, i))

\* t / MinDen degrees, t >= 0.
FromUnits(t) ==
    [neg |-> FALSE, deg |-> t \div MinDen, num |-> t % MinDen, den |-> MinDen]

\* degrees + minutes/60 of a canonical field, in units of 1/MinDen degree.
CanonicalUnits ==
    DigitsValue(pmem, 0, DotIndex - 2) * MinDen
      + DigitsValue(pmem, DotIndex - 2, DotIndex) * 10^4
      + DigitsValue(pmem, DotIndex + 1, DotIndex + 5)

\* C6: on a structurally valid field the decoder returns the magnitude it
\* computed, negated exactly when the hemisphere is S / W.  A magnitude out
\* of range and a hemisphere that is not a letter of the axis only print a
\* message; an empty hemisphere prints none and flips nothing.  Two calls on
\* the same field return the same value when both or neither hemisphere is
\* S / W, and exact negatives otherwise.  (The magnitude of a canonical
\* field is compared as the exact value; the code's double is that value
\* rounded.)
C6_AdvisoryOnly ==
    [][ (call' \in FromCalls /\ StructurallyValid') =>
          /\ ~faulted'
          /\ ret' # G_UNKNOWN
          /\ Canonical' => Magnitude' = FromUnits(CanonicalUnits')
          /\ Len(printed') = (IF DLt(Magnitude', 0) \/ DGt(Magnitude', Limit') THEN 1 ELSE 0)
                              + (IF phemi' \in {PlusHemi', MinusHemi', NUL} THEN 0 ELSE 1)
          /\ (call = call' /\ pmem = pmem') =>
                ret' = IF (phemi' = MinusHemi') = (phemi = MinusHemi) THEN ret ELSE DNeg(ret)
      ]_vars

\* A longitude out of range decoded with W: the value comes back, negated,
\* with the range message.
C6_Witness ==
    /\ call = "longitude_from_nmea"
    /\ pmem = Str(<<"1", "8", "0", "0", "0", ".", "0", "1">>) \o <<NUL>>
    /\ phemi = CH_W
    /\ ret = [neg |-> TRUE, deg |-> 180, num |-> 1, den |-> 60 * 10^2]
    /\ printed = <<"Error: Longitude not in range of 0 to 180.\n">>

\* ddmm.mm / dddmm.mm of the limit of the axis.
LimitMinutes(prec) == FmtInt(Limit, DegWidth) \o <<CH_0, CH_0, CH_DOT>> \o FmtInt(0, prec)

\* The field with the digits of the ambiguity level blanked.
Blanked(s, positions) == [i \in 1..Len(s) |-> IF (i - 1) \in positions THEN CH_SP ELSE s[i]]

LevelPositions ==
    (IF ambiguity >= 1 THEN {Hundredths} ELSE {})
      \cup (IF ambiguity >= 2 THEN {Tenths} ELSE {})
      \cup (IF ambiguity >= 3 THEN {UnitsOfMinutes} ELSE {})
      \cup (IF ambiguity >= 4 THEN {TensOfMinutes} ELSE {})

\* C7: an input below the domain gives the output of the domain minimum, an
\* input above it the output of the domain maximum; a message is printed
\* exactly when the input is outside the domain; the result has its full
\* width.  (The NMEA encoders: on an input that is not the sentinel.)
C7_Clamping ==
    LET minus == IF call \in LatCalls THEN CH_S ELSE CH_W
        plus  == IF call \in LatCalls THEN CH_N ELSE CH_E
        top   == Str(<<"{", "{", "!", "!">>)
        zero  == Str(<<"!", "!", "!", "!">>)
        atMin == Below \/ (dval.neg /\ dval.deg = Limit /\ dval.num = 0)
        atMax == Above \/ (~dval.neg /\ dval.deg = Limit /\ dval.num = 0)
    IN  /\ call \in StrCalls =>
            /\ Len(sout) = DegWidth + 6
            /\ atMin => sout = Blanked(LimitMinutes(2) \o <<minus>>, LevelPositions)
            /\ atMax => sout = Blanked(LimitMinutes(2) \o <<plus>>, LevelPositions)
            /\ (printed # <<>>) = (Below \/ Above)
        /\ call \in CompCalls =>
            /\ Len(sout) = 4
            /\ atMin => sout = (IF call \in LatCalls THEN top ELSE zero)
            /\ atMax => sout = (IF call \in LatCalls THEN zero ELSE top)
            /\ (printed # <<>>) = (Below \/ Above)
        /\ (call \in NmeaCalls /\ ~IsUnknown) =>
            /\ Len(sout) = DegWidth + 7 /\ Len(hout) = 1
            /\ atMin => sout = LimitMinutes(4) /\ hout = <<minus>>
            /\ atMax => sout = LimitMinutes(4) /\ hout = <<plus>>
            /\ (printed # <<>>) = (Below \/ Above)

\* A latitude of 91 and more at ambiguity 2: the field of 90 N, with a message.
C7_Witness ==
    /\ call = "latitude_to_str"
    /\ ambiguity = 2
    /\ dval.deg = 91 /\ ~dval.neg
    /\ sout = Str(<<"9", "0", "0", "0", ".", " ", " ", "N">>)
    /\ printed = <<"Latitude is greater than 90.  Changing to 90.n">>

\* C8: on the sentinel the NMEA encoders write two empty strings and print
\* nothing (the sentinel is below the domain, and is tested first); decoding
\* these two strings returns the sentinel.
C8_Sentinel ==
    /\ (call \in NmeaCalls /\ IsUnknown) =>
          sout = <<>> /\ hout = <<>> /\ printed = <<>>
    /\ (call \in FromCalls /\ fed /\ IsUnknown) =>
          pmem = <<NUL>> /\ phemi = NUL /\ ret = G_UNKNOWN /\ printed = <<>>

\* The sentinel, through longitude_to_nmea and longitude_from_nmea.
C8_Witness ==
    /\ call = "longitude_from_nmea"
    /\ fed
    /\ dval = G_UNKNOWN
    /\ ret = G_UNKNOWN

\* C9 (as claimed): in latitude_to_comp_str the scaled integer is 0 for
\* latitude 90 and 91^4 - 1 for latitude -90, up to the rounding of the scale
\* constant (a scale off by at most 1/2 moves the product by at most 90), and
\* is in 0 .. 91^4 - 1 for every input.
C9_MinusNinetyIsTop ==
    call = "latitude_to_comp_str" =>
        /\ (Above \/ (~dval.neg /\ dval.deg = 90 /\ dval.num = 0)) => scaled = 0
        /\ (Below \/ (dval.neg /\ dval.deg = 90 /\ dval.num = 0)) =>
              (scaled >= 91^4 - 1 - 90 /\ scaled <= 91^4 - 1 + 90)
        /\ scaled >= 0 /\ scaled <= 91^4 - 1

\* C9 (amended): in latitude_to_comp_str the scaled integer is 0 for latitude
\* 90 and 380926 * 180 = 68566680 for latitude -90, which is 8280 below
\* 91^4 - 1; for every input it is in 0 .. 68566680, so within four base 91
\* digits.
C9_MinusNinetyIs68566680 ==
    call = "latitude_to_comp_str" =>
        /\ (Above \/ (~dval.neg /\ dval.deg = 90 /\ dval.num = 0)) => scaled = 0
        /\ (Below \/ (dval.neg /\ dval.deg = 90 /\ dval.num = 0)) =>
              (scaled = 380926 * 180 /\ scaled = 91^4 - 1 - 8280)
        /\ scaled >= 0 /\ scaled <= 380926 * 180

\* Latitude -90 itself.
C9_Witness ==
    /\ call = "latitude_to_comp_str"
    /\ dval.neg /\ dval.deg = 90 /\ dval.num = 0
    /\ scaled = 68566680

\* C10 (as claimed): the decoders read no byte of pstr past its terminator.
C10_NoReadPastTerminator ==
    call \in FromCalls => lastRead <= StrLen(pmem)

===========================================================================
